---- MODULE Spec2Model ----
(***************************************************************************)
(* Vendor Connection Manager of deca-dev/chatbot-multiuser.                *)
(*                                                                         *)
(* The model follows the consolidated variant of the server, lines 425-963 *)
(* of src/unnamed/part_000: the port pool, the vendor registry, the        *)
(* provider event handlers with their code-refresh timers, the persisted   *)
(* snapshot, the startup restore and the retry sweep.                      *)
(*                                                                         *)
(* Encodings.  A JavaScript `undefined` is "undefined" for a string field, *)
(* NoPort for a port, NoId for an id, NoAttempts for a counter and         *)
(* NoProvider for a provider handle.  `new Date()` is the Date object      *)
(* DateNow; JSON.stringify turns it into the string ISONow.  A vendor id   *)
(* (uuidv4) is the next unused integer.  The registry is an ordered map    *)
(* (a JavaScript Map iterates in insertion order): a sequence of           *)
(* [k |-> id, v |-> record].                                               *)
(***************************************************************************)
EXTENDS Integers, Sequences, FiniteSets, TLC

\* ------------------------------------------------------------------ bounds
\* Concurrent-vendor cap used by the model (the source sets 70).
MaxConn == 2
\* Number of vendor ids uuidv4 hands out in one run.
MaxIds == 2
\* Number of provider instances created in one run.
MaxProviders == 4
\* Number of handler executions in one run.
MaxSteps == 5
\* Number of calls on the port pool in one run of the allocator specification.
MaxCalls == 6
\* Number of handler executions in one run of the retry specification.
MaxRetrySteps == 10

\* --------------------------------------------------------------- constants
BASE_PORT == 3008
VENDOR_BASE_PORT == BASE_PORT + 100
MAX_CONCURRENT_CONNECTIONS == MaxConn
PORT_RANGE_START == VENDOR_BASE_PORT
PORT_RANGE_END == VENDOR_BASE_PORT + MAX_CONCURRENT_CONNECTIONS
\* retry ceiling of the sweep
RETRY_LIMIT == 3

UNDEF == "undefined"
NoPort == 0
NoId == 0
NoAttempts == -1
NoProvider == 0
DateNow == "Date"
ISONow == "iso"

PortRange == PORT_RANGE_START .. PORT_RANGE_END

\* Inputs of the control API.
Names == {"ana"}
Numbers == {"521", "522"}
\* identities the provider can confirm at pairing
PairedNumbers == {"521", "522"}
\* request bodies of PUT /vendors/:id: a new name, or the phone number alone
UpdateBodies == {[name |-> "bea", phoneNumber |-> ""], [name |-> "", phoneNumber |-> "521"]}
\* ids of vendors persisted by an earlier run of the process
StoredId(n) == 100 + n

VARIABLES
  vendors,      \* the registry: sequence of [k |-> id, v |-> Vendor]
  usedPorts,    \* the set of reserved ports
  metrics,      \* ConnectionMetrics
  file,         \* vendors.json: [kind, data], data the JSON array it holds
  providers,    \* provider instances: [vid, timer] (closure of setupProviderEvents)
  boot,         \* position of initializeExistingVendors
  resuming,     \* timer callbacks suspended at `await createBot` that still call getAvailablePort
  nextId,       \* number of ids uuidv4 has handed out
  last,         \* the last handler that ran and its outcome
  removed,      \* ids removed from the registry by deletion or connection-failure cleanup
  alloc,        \* the last call on the port pool (allocator specification)
  conversations, \* the conversation files: the entries written, oldest first
  outage,       \* <<id, n>>: n sweeps have run since a disconnect event found vendor id
                \* connected, and no ready event has come for it since
  steps         \* number of handler executions left in the run

vars == <<vendors, usedPorts, metrics, file, providers, boot, resuming,
          nextId, last, removed, alloc, conversations, outage, steps>>

\* ------------------------------------------------------------ registry map
Keys(m) == {m[i].k : i \in 1..Len(m)}
Has(m, id) == \E i \in 1..Len(m) : m[i].k = id
IndexOf(m, id) == CHOOSE i \in 1..Len(m) : m[i].k = id
Get(m, id) == m[IndexOf(m, id)].v
\* Map.prototype.set: replaces in place, or appends
MapSet(m, id, val) ==
  IF Has(m, id)
    THEN [i \in 1..Len(m) |-> IF m[i].k = id THEN [k |-> id, v |-> val] ELSE m[i]]
    ELSE Append(m, [k |-> id, v |-> val])
\* Map.prototype.delete
MapDelete(m, id) == SelectSeq(m, LAMBDA e : e.k # id)
Size(m) == Len(m)

\* --------------------------------------------------------------- allocator
RECURSIVE ScanPorts(_, _)
ScanPorts(port, used) ==
  IF port > PORT_RANGE_END
    THEN [threw |-> TRUE, port |-> NoPort, used |-> used]
    ELSE IF port \notin used
           THEN [threw |-> FALSE, port |-> port, used |-> used \cup {port}]
           ELSE ScanPorts(port + 1, used)

\* variant: the scan runs one port past the end of the range
RECURSIVE ScanPastEnd(_, _)
ScanPastEnd(port, used) ==
  IF port > PORT_RANGE_END + 1
    THEN [threw |-> TRUE, port |-> NoPort, used |-> used]
    ELSE IF port \notin used
           THEN [threw |-> FALSE, port |-> port, used |-> used \cup {port}]
           ELSE ScanPastEnd(port + 1, used)

getAvailablePort_PastEnd(used) == ScanPastEnd(PORT_RANGE_START, used)

getAvailablePort(used) == ScanPorts(PORT_RANGE_START, used)

\* ----------------------------------------------------------------- metrics
CountStatus(m, s) == Cardinality({i \in 1..Len(m) : m[i].v.status = s})

updateMetrics(mt, m) ==
  [mt EXCEPT !.activeConnections = CountStatus(m, "connected"),
             !.pendingConnections = CountStatus(m, "pending")]

\* ------------------------------------------------------------- persistence
JsonKeys == {"id", "name", "phoneNumber", "assignedNumber", "status",
             "lastConnection", "port"}

\* value of one key of the object literal built by saveVendorsToFile
FieldOf(v, key) ==
  CASE key = "id" -> v.id
    [] key = "name" -> v.name
    [] key = "phoneNumber" -> v.phoneNumber
    [] key = "assignedNumber" -> v.assignedNumber
    [] key = "status" -> v.status
    [] key = "lastConnection" -> v.lastConnection
    [] key = "port" -> v.port

IsUndefined(v, key) ==
  CASE key = "id" -> v.id = NoId
    [] key = "port" -> v.port = NoPort
    [] OTHER -> FieldOf(v, key) = UNDEF

\* variant: the object literal is built without the port member
Stringify_NoPort(v) ==
  [key \in {k \in JsonKeys \ {"port"} : ~IsUndefined(v, k)} |->
     IF key = "lastConnection" /\ v.lastConnection = DateNow
       THEN ISONow
       ELSE FieldOf(v, key)]

\* JSON.stringify: a Date becomes its ISO string, an undefined member is dropped
Stringify(v) ==
  [key \in {k \in JsonKeys : ~IsUndefined(v, k)} |->
     IF key = "lastConnection" /\ v.lastConnection = DateNow
       THEN ISONow
       ELSE FieldOf(v, key)]

\* vendors.json: missing, unparsable, or holding a JSON array.  data is the
\* array JSON.parse returns; for an unparsable file it is the records a parser
\* that skipped the damage would still find, which JSON.parse never returns.
FileAbsent == [kind |-> "absent", data |-> <<>>]
FileCorrupt ==
  [kind |-> "corrupt",
   data |-> <<[id |-> StoredId(1), name |-> "ana", phoneNumber |-> "521",
               assignedNumber |-> "521", status |-> "connected"]>>]
FileOf(recs) == [kind |-> "json", data |-> recs]

\* the array saveVendorsToFile writes
saveVendorsToFile(m) == FileOf([i \in 1..Len(m) |-> Stringify(m[i].v)])

\* variant: no existsSync test and no catch, the parser salvages what it finds
loadVendorsFromFile_Salvage(f) == f.data

loadVendorsFromFile(f) == IF f.kind = "json" THEN f.data ELSE <<>>

\* member access on a parsed JSON record
JStr(rec, key) == IF key \in DOMAIN rec THEN rec[key] ELSE UNDEF
JNum(rec, key, none) == IF key \in DOMAIN rec THEN rec[key] ELSE none

\* ------------------------------------------------------------ vendor record
\* the object literal of POST /vendors/register
NewVendor(id, name, phoneNumber, provider, port) ==
  [id |-> id, name |-> name, provider |-> provider, phoneNumber |-> "",
   assignedNumber |-> phoneNumber, status |-> "pending", qr |-> UNDEF,
   lastConnection |-> UNDEF, reconnectAttempts |-> 0, port |-> port]

\* {...undefined}: an object without any member
EmptyObject ==
  [id |-> NoId, name |-> UNDEF, provider |-> NoProvider, phoneNumber |-> UNDEF,
   assignedNumber |-> UNDEF, status |-> UNDEF, qr |-> UNDEF,
   lastConnection |-> UNDEF, reconnectAttempts |-> NoAttempts, port |-> NoPort]

\* {...storedVendor}: the members of a parsed JSON record
FromStored(rec) ==
  [id |-> JNum(rec, "id", NoId), name |-> JStr(rec, "name"),
   provider |-> NoProvider, phoneNumber |-> JStr(rec, "phoneNumber"),
   assignedNumber |-> JStr(rec, "assignedNumber"), status |-> JStr(rec, "status"),
   qr |-> UNDEF, lastConnection |-> JStr(rec, "lastConnection"),
   reconnectAttempts |-> NoAttempts, port |-> JNum(rec, "port", NoPort)]

\* ------------------------------------------------- providers and their timers
\* qrRefreshInterval of one setupProviderEvents closure.  The callback closes
\* over `vendor`, the object the qr handler read from the registry: cap says
\* whether that was undefined, is still the object the registry holds
\* ("attached", so later in-place writes show through), or is an object the
\* registry has dropped or replaced ("detached", frozen at val).
NoTimer == [on |-> FALSE]
AttachedTimer == [on |-> TRUE, cap |-> "attached"]
UndefinedTimer == [on |-> TRUE, cap |-> "undefined"]
DetachedTimer(val) == [on |-> TRUE, cap |-> "detached", val |-> val]

NewProvider(id) == [vid |-> id, timer |-> NoTimer]

\* the registry stops holding the object `val` of vendor id
Detach(provs, id, val) ==
  [p \in 1..Len(provs) |->
     IF provs[p].vid = id /\ provs[p].timer.on /\ provs[p].timer.cap = "attached"
       THEN [provs[p] EXCEPT !.timer = DetachedTimer(val)]
       ELSE provs[p]]

\* vendors.set(id, val) with val a new object
SetObject(st, id, val) ==
  [st EXCEPT !.vendors = MapSet(@, id, val),
             !.providers = IF Has(st.vendors, id)
                             THEN Detach(@, id, Get(st.vendors, id))
                             ELSE @]

\* in-place write to the object the registry holds for id
Mutate(st, id, val) == [st EXCEPT !.vendors = MapSet(@, id, val)]

Save(st) == [st EXCEPT !.file = saveVendorsToFile(st.vendors)]
Metrics(st) == [st EXCEPT !.metrics = updateMetrics(@, st.vendors)]

\* the program state the handlers work on
State == [vendors |-> vendors, usedPorts |-> usedPorts, metrics |-> metrics,
          file |-> file, providers |-> providers]

Commit(st) ==
  /\ vendors' = st.vendors
  /\ usedPorts' = st.usedPorts
  /\ metrics' = st.metrics
  /\ file' = st.file
  /\ providers' = st.providers

\* ------------------------------------------------------------- cleanupVendor
\* throws: getInstance() or terminate() raises inside the try block
cleanupVendor(st, id, throws) ==
  IF ~Has(st.vendors, id) \/ throws
    THEN st
    ELSE LET vendor == Get(st.vendors, id)
             st1 == [st EXCEPT !.vendors = MapDelete(@, id),
                               !.providers = Detach(@, id, vendor),
                               !.usedPorts = @ \ {vendor.port},
                               !.metrics = [@ EXCEPT !.totalConnections = @ - 1]]
         IN  Save(Metrics(st1))

\* --------------------------------------------------------------- responses
\* called: the providers sendText was called on; results: the result list of
\* a broadcast
Outcome(op, id, code, error, port) ==
  [op |-> op, id |-> id, code |-> code, error |-> error, port |-> port,
   number |-> "", threw |-> FALSE, called |-> <<>>, results |-> <<>>]

\* the phone number a registration or update request carried, or the identity
\* a ready event confirmed
For(outcome, phoneNumber) == [outcome EXCEPT !.number = phoneNumber]

\* the try block of cleanupVendor raised while the handler ran
Threw(outcome, id, throws) == [outcome EXCEPT !.threw = throws /\ Has(vendors, id)]

\* a timer callback or a provider event answers nobody
Silent(op, id) == Outcome(op, id, 0, "", NoPort)

Tick == steps' = steps - 1

\* bookkeeping of outage: a disconnect event found vendor id connected, a
\* ready event came for it, a sweep ran
OutageStart(id) ==
  IF \E e \in outage : e[1] = id THEN outage ELSE outage \cup {<<id, 0>>}
OutageEnd(id) == {e \in outage : e[1] # id}
OutageSwept == {<<e[1], e[2] + 1>> : e \in outage}

Running == boot.pc # "start" /\ steps > 0

\* stored vendors initializeExistingVendors has still to restore
ConnectedLeft(todo) ==
  Cardinality({i \in 1..Len(todo) : JStr(todo[i], "status") = "connected"})

\* a provider instance may still be created within MaxProviders
ProviderRoom == Len(providers) + ConnectedLeft(boot.todo) < MaxProviders

\* ids a request names: those uuidv4 has handed out, those the registry holds
\* or held, and those of persisted vendors the startup restore leaves out
KnownIds ==
  (1..nextId) \cup Keys(vendors) \cup removed
    \cup {JNum(loadVendorsFromFile(file)[i], "id", NoId) :
             i \in {j \in 1..Len(loadVendorsFromFile(file)) :
                      JStr(loadVendorsFromFile(file)[j], "status") # "connected"}}

\* ------------------------------------------------- POST /vendors/register
\* registeredVendors.find(v => v.assignedNumber === phoneNumber)
FindByNumber(recs, phoneNumber) ==
  LET hits == {i \in 1..Len(recs) : JStr(recs[i], "assignedNumber") = phoneNumber}
  IN  IF hits = {} THEN <<>>
      ELSE <<recs[CHOOSE i \in hits : \A j \in hits : i <= j]>>

AlreadyRegistered(f, phoneNumber) ==
  LET existingVendor == FindByNumber(loadVendorsFromFile(f), phoneNumber)
  IN  existingVendor # <<>> /\ JStr(existingVendor[1], "status") # "disconnected"

\* variant: the admission check lets one vendor more in
AtCapacity_Strict(m) == Size(m) > MAX_CONCURRENT_CONNECTIONS

AtCapacity(m) == Size(m) >= MAX_CONCURRENT_CONNECTIONS

\* botFails: the awaited createBot rejects after the vendor has been stored
Register(name, phoneNumber, botFails) ==
  /\ Running
  /\ Tick
  /\ UNCHANGED <<boot, resuming, removed, alloc, outage, conversations>>
  /\ IF AtCapacity(vendors)
       THEN /\ last' = For(Outcome("register", NoId, 429, "Maximum connections reached", NoPort), phoneNumber)
            /\ UNCHANGED <<vendors, usedPorts, metrics, file, providers, nextId>>
     ELSE IF name = "" \/ phoneNumber = ""
       THEN /\ last' = For(Outcome("register", NoId, 400, "Name and phone number are required", NoPort), phoneNumber)
            /\ UNCHANGED <<vendors, usedPorts, metrics, file, providers, nextId>>
     ELSE IF AlreadyRegistered(file, phoneNumber)
       THEN /\ last' = For(Outcome("register", NoId, 400, "Phone number already registered", NoPort), phoneNumber)
            /\ UNCHANGED <<vendors, usedPorts, metrics, file, providers, nextId>>
     ELSE /\ nextId < MaxIds
          /\ ProviderRoom
          /\ nextId' = nextId + 1
          /\ LET id == nextId + 1
                 got == getAvailablePort(usedPorts)
                 provider == Len(providers) + 1
                 st1 == [State EXCEPT !.usedPorts = got.used,
                                      !.providers = Append(@, NewProvider(id))]
                 st2 == SetObject(st1, id, NewVendor(id, name, phoneNumber, provider, got.port))
                 st3 == [st2 EXCEPT !.metrics = [@ EXCEPT !.totalConnections = @ + 1]]
             IN  IF got.threw
                   THEN /\ last' = For(Outcome("register", id, 500, "Failed to initialize vendor", NoPort), phoneNumber)
                        /\ UNCHANGED <<vendors, usedPorts, metrics, file, providers>>
                   ELSE /\ Commit(Save(Metrics(st3)))
                        /\ last' = For(IF botFails
                                          THEN Outcome("register", id, 500, "Failed to initialize vendor", NoPort)
                                          ELSE Outcome("register", id, 200, "", got.port),
                                        phoneNumber)

\* --------------------------------------------------- DELETE /vendors/:id
Delete(id, throws) ==
  /\ Running
  /\ Tick
  /\ UNCHANGED <<boot, resuming, nextId, alloc, outage, conversations>>
  /\ IF ~Has(vendors, id)
       THEN /\ last' = Outcome("delete", id, 404, "Vendor not found", NoPort)
            /\ UNCHANGED <<vendors, usedPorts, metrics, file, providers, removed>>
       ELSE LET st1 == cleanupVendor(State, id, throws)
            IN  /\ Commit(Save(st1))
                /\ last' = Threw(Outcome("delete", id, 200, "", NoPort), id, throws)
                /\ removed' = IF Has(st1.vendors, id) THEN removed ELSE removed \cup {id}

\* ------------------------------------------------------ setupProviderEvents
Vid(p) == providers[p].vid
SetTimer(st, p, t) == [st EXCEPT !.providers[p].timer = t]

\* provider.on('qr')
Qr(p) ==
  /\ Running
  /\ Tick
  /\ UNCHANGED <<boot, resuming, nextId, removed, alloc, outage, conversations>>
  /\ last' = Silent("qr", Vid(p))
  /\ LET id == Vid(p)
     IN  IF Has(vendors, id)
           THEN LET vendor == [Get(vendors, id) EXCEPT !.qr = "qr", !.status = "pending"]
                IN  Commit(SetTimer(Save(Metrics(Mutate(State, id, vendor))), p, AttachedTimer))
           ELSE Commit(SetTimer(State, p, UndefinedTimer))

\* variant: the pairing is taken only when the confirmed identity is the
\* assigned number
Paired_OnlyIfAssigned(vendor, phoneNumber) ==
  IF phoneNumber = vendor.assignedNumber
    THEN [vendor EXCEPT !.status = "connected",
                        !.phoneNumber = phoneNumber,
                        !.qr = UNDEF,
                        !.lastConnection = DateNow,
                        !.reconnectAttempts = 0]
    ELSE vendor

\* the writes of the ready handler to the vendor
Paired(vendor, phoneNumber) ==
  [vendor EXCEPT !.status = "connected",
                 !.phoneNumber = phoneNumber,
                 !.qr = UNDEF,
                 !.lastConnection = DateNow,
                 !.reconnectAttempts = 0]

\* provider.on('ready')
Ready(p, phoneNumber) ==
  /\ Running
  /\ Tick
  /\ UNCHANGED <<boot, resuming, nextId, removed, alloc, conversations>>
  /\ outage' = OutageEnd(Vid(p))
  /\ last' = For(Silent("ready", Vid(p)), phoneNumber)
  /\ LET id == Vid(p)
         st1 == SetTimer(State, p, NoTimer)
     IN  IF Has(vendors, id)
           THEN Commit(Save(Metrics(Mutate(st1, id, Paired(Get(vendors, id), phoneNumber)))))
           ELSE Commit(st1)

\* variant: the handler also forgets the identity confirmed at pairing
Disconnected_Unpaired(vendor) ==
  [vendor EXCEPT !.status = "disconnected", !.phoneNumber = ""]

\* the write of the disconnect handler to the vendor
Disconnected(vendor) == [vendor EXCEPT !.status = "disconnected"]

\* provider.on('disconnect')
Disconnect(p) ==
  /\ Running
  /\ Tick
  /\ UNCHANGED <<boot, resuming, nextId, removed, alloc, conversations>>
  /\ outage' = IF Has(vendors, Vid(p)) /\ Get(vendors, Vid(p)).status = "connected"
                 THEN OutageStart(Vid(p))
                 ELSE outage
  /\ last' = Silent("disconnect", Vid(p))
  /\ LET id == Vid(p)
         st1 == SetTimer(State, p, NoTimer)
     IN  IF Has(vendors, id)
           THEN Commit(Save(Metrics(Mutate(st1, id, Disconnected(Get(vendors, id))))))
           ELSE Commit(st1)

\* provider.on('connection.failure')
ConnectionFailure(p, throws) ==
  /\ Running
  /\ Tick
  /\ UNCHANGED <<boot, resuming, nextId, alloc, outage, conversations>>
  /\ last' = Threw(Silent("connection.failure", Vid(p)), Vid(p), throws)
  /\ LET id == Vid(p)
         st1 == SetTimer(State, p, NoTimer)
     IN  IF Has(vendors, id)
           THEN LET vendor == [Get(vendors, id) EXCEPT !.status = "disconnected"]
                    st2 == cleanupVendor(Metrics(Mutate(st1, id, vendor)), id, throws)
                IN  /\ Commit(st2)
                    /\ removed' = IF Has(st2.vendors, id) THEN removed ELSE removed \cup {id}
           ELSE /\ Commit(st1)
                /\ UNCHANGED removed

\* the object the timer callback closes over; <<>> when it is undefined
Captured(st, p) ==
  LET t == st.providers[p].timer
  IN  CASE t.cap = "undefined" -> <<>>
        [] t.cap = "attached" -> <<Get(st.vendors, st.providers[p].vid)>>
        [] t.cap = "detached" -> <<t.val>>

\* the qrRefreshInterval callback, up to `await createBot`
RefreshFire(p, throws, botFails) ==
  /\ Running
  /\ providers[p].timer.on
  /\ ProviderRoom
  /\ Tick
  /\ UNCHANGED <<boot, nextId, removed, alloc, outage, conversations>>
  /\ last' = Threw(Silent("refresh", Vid(p)), Vid(p), throws)
  /\ LET id == Vid(p)
         vendor == Captured(State, p)
         st1 == cleanupVendor(State, id, throws)
         hasPort == vendor # <<>> /\ vendor[1].port # NoPort
         got == IF hasPort
                  THEN [threw |-> FALSE, port |-> vendor[1].port, used |-> st1.usedPorts]
                  ELSE getAvailablePort(st1.usedPorts)
         newProvider == Len(providers) + 1
         spread == IF vendor = <<>> THEN EmptyObject ELSE vendor[1]
         st2 == [st1 EXCEPT !.usedPorts = got.used,
                            !.providers = Append(@, NewProvider(id))]
         st3 == SetObject(st2, id, [spread EXCEPT !.provider = newProvider,
                                                  !.status = "pending"])
     IN  IF got.threw
           THEN Commit(st1) /\ UNCHANGED resuming
           ELSE /\ Commit(st3)
                /\ resuming' = IF hasPort \/ botFails THEN resuming ELSE resuming + 1

\* the rest of the callback: httpServer(vendor?.port || getAvailablePort())
RefreshResume ==
  /\ Running
  /\ resuming > 0
  /\ Tick
  /\ resuming' = resuming - 1
  /\ usedPorts' = getAvailablePort(usedPorts).used
  /\ last' = Silent("refresh-resume", NoId)
  /\ UNCHANGED <<vendors, metrics, file, providers, boot, nextId, removed, alloc, outage, conversations>>

\* ----------------------------------------------------------- PUT /vendors/:id
\* variant: the phone number of the body is not compared
NumberChanged_Ignored(vendor, phoneNumber) == FALSE

\* phoneNumber && phoneNumber !== vendor.assignedNumber
NumberChanged(vendor, phoneNumber) ==
  phoneNumber # "" /\ phoneNumber # vendor.assignedNumber

Update(id, name, phoneNumber) ==
  /\ Running
  /\ Tick
  /\ UNCHANGED <<usedPorts, metrics, boot, resuming, nextId, removed, alloc, outage, conversations>>
  /\ IF ~Has(vendors, id)
       THEN /\ last' = For(Outcome("update", id, 404, "Vendor not found", NoPort), phoneNumber)
            /\ UNCHANGED <<vendors, file, providers>>
     ELSE IF NumberChanged(Get(vendors, id), phoneNumber)
       THEN /\ last' = For(Outcome("update", id, 400, "Phone number cannot be updated", NoPort),
                           phoneNumber)
            /\ UNCHANGED <<vendors, file, providers>>
     ELSE LET vendor == Get(vendors, id)
              st1 == SetObject(State, id,
                       [vendor EXCEPT !.name = IF name # "" THEN name ELSE vendor.name])
              st2 == Save(st1)
          IN  /\ vendors' = st2.vendors
              /\ file' = st2.file
              /\ providers' = st2.providers
              /\ last' = For(Outcome("update", id, 200, "", NoPort), phoneNumber)

\* ------------------------------------------------------------- GET /vendors/
\* one round of activeVendors.forEach: replace the first stored record with
\* the same id, or push
MergeActive(allVendors, active) ==
  LET hits == {i \in 1..Len(allVendors) : JNum(allVendors[i], "id", NoId) = active.id}
  IN  IF hits # {}
        THEN [allVendors EXCEPT ![CHOOSE i \in hits : \A j \in hits : i <= j] =
                                  Stringify(active)]
        ELSE Append(allVendors, Stringify(active))

RECURSIVE MergeAll(_, _, _)
MergeAll(allVendors, m, i) ==
  IF i > Len(m) THEN allVendors
  ELSE MergeAll(MergeActive(allVendors, m[i].v), m, i + 1)

\* the body of the response (res.json serialises it)
listVendors(m, f) == MergeAll(loadVendorsFromFile(f), m, 1)

\* ------------------------------------------------------------------ messaging
\* the user a message goes to or comes from, and its text
Users == {"555"}
Message == "hola"

\* saveConversation: push one entry onto the file of (vendorId, userId)
saveConversation(conv, m, vendorId, userId, message, sender) ==
  Append(conv, [vendorId |-> vendorId, userId |-> userId, sender |-> sender,
                message |-> message,
                vendorNumber |-> IF sender = "bot" /\ Has(m, vendorId)
                                   THEN Get(m, vendorId).phoneNumber
                                   ELSE UNDEF,
                timestamp |-> ISONow])

\* variant: the status of the vendor is not looked at
Sendable_AnyStatus(m, vendorId) == Has(m, vendorId)

\* the negation of `!vendor || vendor.status !== 'connected'`
Sendable(m, vendorId) == Has(m, vendorId) /\ Get(m, vendorId).status = "connected"

\* POST /messages/send; sendFails: the awaited sendText rejects.  isGroup
\* only picks the suffix of the address handed to the provider.
Send(vendorId, targetNumber, sendFails) ==
  /\ Running
  /\ Tick
  /\ UNCHANGED <<vendors, usedPorts, metrics, file, providers, boot, resuming,
                 nextId, removed, alloc, outage>>
  /\ IF ~Sendable(vendors, vendorId)
       THEN /\ last' = Outcome("send", vendorId, 404, "Vendor not found or not connected", NoPort)
            /\ UNCHANGED conversations
     ELSE LET vendor == Get(vendors, vendorId)
          IN  IF sendFails
                THEN /\ last' = [Outcome("send", vendorId, 500, "Failed to send message", NoPort)
                                   EXCEPT !.called = <<vendor.provider>>]
                     /\ UNCHANGED conversations
                ELSE /\ last' = [Outcome("send", vendorId, 200, "", NoPort)
                                   EXCEPT !.called = <<vendor.provider>>]
                     /\ conversations' = saveConversation(conversations, vendors, vendorId,
                                                            targetNumber, Message, "bot")

\* variant: the try block encloses the loop, the first rejection ends it
RECURSIVE BroadcastLoop_StopAtFailure(_, _, _, _)
BroadcastLoop_StopAtFailure(m, i, failing, acc) ==
  IF i > Len(m) THEN acc
  ELSE IF m[i].v.status # "connected"
    THEN BroadcastLoop_StopAtFailure(m, i + 1, failing, acc)
  ELSE IF m[i].k \in failing
    THEN [acc EXCEPT !.called = Append(@, m[i].v.provider),
                     !.results = Append(@, [vendorId |-> m[i].k, success |-> FALSE])]
  ELSE BroadcastLoop_StopAtFailure(m, i + 1, failing,
         [conv |-> saveConversation(acc.conv, m, m[i].k, acc.target, Message, "bot"),
          target |-> acc.target,
          called |-> Append(acc.called, m[i].v.provider),
          results |-> Append(acc.results, [vendorId |-> m[i].k, success |-> TRUE])])

\* the loop of POST /messages/broadcast from entry i on; failing: the vendors
\* whose sendText rejects
RECURSIVE BroadcastLoop(_, _, _, _)
BroadcastLoop(m, i, failing, acc) ==
  IF i > Len(m) THEN acc
  ELSE IF m[i].v.status # "connected"
    THEN BroadcastLoop(m, i + 1, failing, acc)
  ELSE IF m[i].k \in failing
    THEN BroadcastLoop(m, i + 1, failing,
           [acc EXCEPT !.called = Append(@, m[i].v.provider),
                       !.results = Append(@, [vendorId |-> m[i].k, success |-> FALSE])])
  ELSE BroadcastLoop(m, i + 1, failing,
         [conv |-> saveConversation(acc.conv, m, m[i].k, acc.target, Message, "bot"),
          target |-> acc.target,
          called |-> Append(acc.called, m[i].v.provider),
          results |-> Append(acc.results, [vendorId |-> m[i].k, success |-> TRUE])])

\* POST /messages/broadcast
Broadcast(targetNumber, failing) ==
  /\ Running
  /\ Tick
  /\ UNCHANGED <<vendors, usedPorts, metrics, file, providers, boot, resuming,
                 nextId, removed, alloc, outage>>
  /\ LET done == BroadcastLoop(vendors, 1, failing,
                    [conv |-> conversations, target |-> targetNumber,
                     called |-> <<>>, results |-> <<>>])
     IN  /\ conversations' = done.conv
         /\ last' = [Outcome("broadcast", NoId, 200, "", NoPort)
                       EXCEPT !.called = done.called, !.results = done.results]

\* incomingMessageFlow of one provider: a user's message arrives
Incoming(p, from) ==
  /\ Running
  /\ Tick
  /\ UNCHANGED <<vendors, usedPorts, metrics, file, providers, boot, resuming,
                 nextId, removed, alloc, outage>>
  /\ last' = Silent("incoming", Vid(p))
  /\ conversations' = saveConversation(conversations, vendors, Vid(p), from, Message, "user")

\* ----------------------------------------------------------------- retry sweep
\* variant: a vendor at the retry ceiling is retried once more
Retryable_AtCeiling(v) ==
  /\ v.status = "disconnected"
  /\ v.reconnectAttempts # NoAttempts
  /\ v.reconnectAttempts <= RETRY_LIMIT

\* v.status === 'disconnected' && v.reconnectAttempts < 3 (false when
\* reconnectAttempts is undefined)
Retryable(v) ==
  /\ v.status = "disconnected"
  /\ v.reconnectAttempts # NoAttempts
  /\ v.reconnectAttempts < RETRY_LIMIT

Sweep ==
  /\ Running
  /\ Tick
  /\ UNCHANGED <<usedPorts, providers, boot, resuming, nextId, removed, alloc, conversations>>
  /\ outage' = OutageSwept
  /\ last' = Silent("sweep", NoId)
  /\ LET swept == [i \in 1..Len(vendors) |->
                     IF Retryable(vendors[i].v)
                       THEN [vendors[i] EXCEPT !.v.reconnectAttempts = @ + 1,
                                               !.v.status = "pending"]
                       ELSE vendors[i]]
     IN  IF \E i \in 1..Len(vendors) : Retryable(vendors[i].v)
           THEN /\ vendors' = swept
                /\ metrics' = updateMetrics(metrics, swept)
                /\ file' = saveVendorsToFile(swept)
           ELSE UNCHANGED <<vendors, metrics, file>>

\* ---------------------------------------------------- initializeExistingVendors
\* storedVendors is the list the loop runs over, todo the part of it still to
\* visit; restored and failed record the ids whose createBot settled and
\* rejected
BootAt(pc, todo, cur, port, prov) ==
  [pc |-> pc, todo |-> todo, cur |-> cur, port |-> port, prov |-> prov,
   storedVendors |-> <<>>, restored |-> {}, failed |-> {}]

\* the loop body up to its next `await createBot`, or to the end of the loop
RECURSIVE BootAdvance(_, _)
BootAdvance(st, todo) ==
  IF todo = <<>>
    THEN [st |-> st, boot |-> BootAt("done", <<>>, <<>>, NoPort, NoProvider)]
    ELSE IF JStr(Head(todo), "status") # "connected"
      THEN BootAdvance(st, Tail(todo))
      ELSE LET got == getAvailablePort(st.usedPorts)
               storedVendor == Head(todo)
           IN  IF got.threw
                 THEN BootAdvance(st, Tail(todo))
                 ELSE [st |-> [st EXCEPT !.usedPorts = got.used,
                                         !.providers = Append(@, NewProvider(JNum(storedVendor, "id", NoId)))],
                       boot |-> BootAt("await", Tail(todo), <<storedVendor>>, got.port,
                                       Len(st.providers) + 1)]

\* app.listen callback: load the snapshot and run to the first await
BootStart ==
  /\ boot.pc = "start"
  /\ Tick
  /\ UNCHANGED <<resuming, nextId, removed, alloc, outage, conversations>>
  /\ last' = Silent("boot", NoId)
  /\ LET storedVendors == loadVendorsFromFile(file)
         next == BootAdvance(State, storedVendors)
     IN  /\ Commit(next.st)
         /\ boot' = [next.boot EXCEPT !.storedVendors = storedVendors]

\* the awaited createBot settles: the restored vendor is stored, or the
\* rejection is caught; then the loop goes on
BootResume(botFails) ==
  /\ boot.pc = "await"
  /\ steps > 0
  /\ Tick
  /\ UNCHANGED <<resuming, nextId, removed, alloc, outage, conversations>>
  /\ last' = Silent("boot-resume", JNum(boot.cur[1], "id", NoId))
  /\ LET storedVendor == boot.cur[1]
         vendor == [FromStored(storedVendor) EXCEPT !.provider = boot.prov,
                                                    !.reconnectAttempts = 0,
                                                    !.port = boot.port]
         st1 == IF botFails THEN State
                ELSE SetObject(State, JNum(storedVendor, "id", NoId), vendor)
         next == BootAdvance(st1, boot.todo)
     IN  /\ Commit(next.st)
         /\ boot' = [next.boot EXCEPT
                       !.storedVendors = boot.storedVendors,
                       !.restored = IF botFails
                                      THEN boot.restored
                                      ELSE boot.restored \cup {JNum(storedVendor, "id", NoId)},
                       !.failed = IF botFails
                                    THEN boot.failed \cup {JNum(storedVendor, "id", NoId)}
                                    ELSE boot.failed]

\* ------------------------------------------------------------ specification
\* snapshots an earlier run of the process can have left behind
Stored1 ==
  [id |-> StoredId(1), name |-> "ana", phoneNumber |-> "521", assignedNumber |-> "521",
   status |-> "connected", lastConnection |-> ISONow, port |-> PORT_RANGE_START]
Stored2 ==
  [id |-> StoredId(2), name |-> "ana", phoneNumber |-> "", assignedNumber |-> "523",
   status |-> "pending", port |-> PORT_RANGE_START + 2]
Stored3 ==
  [id |-> StoredId(3), name |-> "ana", phoneNumber |-> "524", assignedNumber |-> "524",
   status |-> "connected", lastConnection |-> ISONow, port |-> PORT_RANGE_START + 1]
InitFiles == {FileAbsent, FileCorrupt, FileOf(<<Stored1, Stored2, Stored3>>)}

NoAlloc == [op |-> "none", pre |-> {}, port |-> NoPort, threw |-> FALSE]

\* the module-level state of a process that has just started, vendors.json
\* being what the earlier run left
Fresh ==
  /\ vendors = <<>>
  /\ usedPorts = {}
  /\ metrics = [totalConnections |-> 0, activeConnections |-> 0,
                pendingConnections |-> 0, failedConnections |-> 0]
  /\ providers = <<>>
  /\ boot = BootAt("start", <<>>, <<>>, NoPort, NoProvider)
  /\ resuming = 0
  /\ nextId = 0
  /\ last = Silent("start", NoId)
  /\ removed = {}
  /\ alloc = NoAlloc
  /\ conversations = <<>>
  /\ outage = {}

Init == Fresh /\ file \in InitFiles /\ steps = MaxSteps

Next ==
  \/ BootStart
  \/ \E botFails \in BOOLEAN : BootResume(botFails)
  \/ \E name \in Names, phoneNumber \in Numbers \cup {""}, botFails \in BOOLEAN :
       Register(name, phoneNumber, botFails)
  \/ \E id \in KnownIds, throws \in BOOLEAN : Delete(id, throws)
  \/ \E id \in KnownIds, body \in UpdateBodies : Update(id, body.name, body.phoneNumber)
  \/ \E p \in 1..Len(providers) : Qr(p)
  \/ \E p \in 1..Len(providers), phoneNumber \in PairedNumbers : Ready(p, phoneNumber)
  \/ \E p \in 1..Len(providers) : Disconnect(p)
  \/ \E p \in 1..Len(providers), throws \in BOOLEAN : ConnectionFailure(p, throws)
  \/ \E p \in 1..Len(providers), throws \in BOOLEAN, botFails \in BOOLEAN :
       RefreshFire(p, throws, botFails)
  \/ RefreshResume
  \/ Sweep

Spec == Init /\ [][Next]_vars

TypeOK ==
  /\ usedPorts \subseteq PortRange
  /\ \A p \in 1..Len(providers) :
       (providers[p].timer.on /\ providers[p].timer.cap = "attached")
         => Has(vendors, providers[p].vid)
  /\ \A i, j \in 1..Len(vendors) : vendors[i].k = vendors[j].k => i = j

\* ------------------------------------------------- messaging specification
\* The control API together with the message endpoints and incoming messages.
NextMsg ==
  \/ Next
  \/ \E vendorId \in KnownIds, targetNumber \in Users, sendFails \in BOOLEAN :
       Send(vendorId, targetNumber, sendFails)
  \/ \E targetNumber \in Users, failing \in SUBSET Keys(vendors) :
       Broadcast(targetNumber, failing)
  \/ \E p \in 1..Len(providers), from \in Users : Incoming(p, from)

SpecMsg == Init /\ [][NextMsg]_vars

\* ------------------------------------------------- allocator specification
\* The port pool on its own: any sequence of getAvailablePort() and
\* usedPorts.delete(port) of at most MaxCalls calls; alloc is the last call.
AllocAcquire ==
  /\ steps > 0
  /\ Tick
  /\ LET got == getAvailablePort(usedPorts)
     IN  /\ usedPorts' = got.used
         /\ alloc' = [op |-> "acquire", pre |-> usedPorts, port |-> got.port,
                      threw |-> got.threw]
  /\ UNCHANGED <<vendors, metrics, file, providers, boot, resuming, nextId, last, removed, conversations, outage>>

AllocRelease(port) ==
  /\ steps > 0
  /\ Tick
  /\ usedPorts' = usedPorts \ {port}
  /\ alloc' = [op |-> "release", pre |-> usedPorts, port |-> port, threw |-> FALSE]
  /\ UNCHANGED <<vendors, metrics, file, providers, boot, resuming, nextId, last, removed, conversations, outage>>

InitAlloc == Fresh /\ file = FileAbsent /\ steps = MaxCalls

NextAlloc ==
  \/ AllocAcquire
  \/ \E port \in PortRange \cup {NoPort} : AllocRelease(port)

SpecAlloc == InitAlloc /\ [][NextAlloc]_vars

\* ----------------------------------------------------- retry specification
\* Restored vendors under provider events, refresh timers and the retry sweep,
\* with no request on the control API: runs of at most MaxRetrySteps handler
\* executions, long enough for a vendor to get to the retry ceiling.
InitRetry == Fresh /\ file = FileOf(<<Stored1, Stored2>>) /\ steps = MaxRetrySteps

NextRetry ==
  \/ BootStart
  \/ BootResume(FALSE)
  \/ \E p \in 1..Len(providers) : Qr(p)
  \/ \E p \in 1..Len(providers) : Ready(p, "521")
  \/ \E p \in 1..Len(providers) : Disconnect(p)
  \/ \E p \in 1..Len(providers) : RefreshFire(p, FALSE, FALSE)
  \/ RefreshResume
  \/ Sweep

SpecRetry == InitRetry /\ [][NextRetry]_vars

\* ===================================================================== claims
StoredIds == {StoredId(n) : n \in 1..3}
\* the startup restore has created a provider for a persisted vendor
Restoring == \E p \in 1..Len(providers) : providers[p].vid \in StoredIds
\* ports held by the vendors of the registry
VendorPorts == {vendors[i].v.port : i \in 1..Len(vendors)} \ {NoPort}
\* port held by the restore that is suspended at createBot
InFlightPorts == IF boot.pc = "await" THEN {boot.port} ELSE {}
\* no handler is suspended
Quiescent == boot.pc = "done" /\ resuming = 0
Active(v) == v.status \in {"pending", "connected"}

\* C1: in every state reached by registrations, deletions, provider events,
\* code-refresh timer firings and retry sweeps (no vendor restored at
\* startup), the reserved ports are exactly the ports held by the vendors of
\* the registry and by in-flight registrations.
C1_PoolMatchesHolders ==
  ~Restoring => usedPorts = VendorPorts \cup InFlightPorts

\* C2: no two distinct vendors of the registry hold the same port (checked
\* where every vendor was registered in this run).
C2_PortExclusive ==
  ~Restoring =>
    \A i, j \in 1..Len(vendors) :
      (i # j /\ vendors[i].v.port # NoPort) => vendors[i].v.port # vendors[j].v.port

\* C3: getAvailablePort never returns a port that was reserved when it was
\* called, nor a port outside [PORT_RANGE_START, PORT_RANGE_END]; called with
\* every port of the range reserved it throws and reserves nothing.
C3_AcquireSound ==
  alloc.op = "acquire" =>
    /\ ~alloc.threw => (alloc.port \notin alloc.pre /\ alloc.port \in PortRange)
    /\ PortRange \subseteq alloc.pre => (alloc.threw /\ usedPorts = alloc.pre)
    /\ usedPorts \subseteq PortRange

W_C3_Exhausted == alloc.op = "acquire" /\ alloc.threw /\ alloc.pre = PortRange

\* C4: a registration that arrives while the registry holds
\* MAX_CONCURRENT_CONNECTIONS vendors (or more) is answered 429 and leaves the
\* registry, the port pool and the persisted snapshot as they were.
C4_AtCapacityRejected ==
  [][(last'.op = "register" /\ Len(vendors) >= MAX_CONCURRENT_CONNECTIONS)
       => /\ last'.code = 429
          /\ vendors' = vendors
          /\ usedPorts' = usedPorts
          /\ file' = file]_vars

\* a registration that nothing but the full registry stands against (a name,
\* a number no persisted vendor has, a free port) is turned away
W_C4_AdmissibleRejected ==
  /\ last.op = "register"
  /\ last.code = 429
  /\ Len(vendors) = MAX_CONCURRENT_CONNECTIONS
  /\ last.number # ""
  /\ ~AlreadyRegistered(file, last.number)
  /\ usedPorts # PortRange

\* C5: the range has as many ports as the cap, so a registration that arrives
\* with a well-formed number no active vendor has while exactly one port of the
\* range is free is not turned away as AtCapacity and takes that last port.
AssignedNumbers(m) ==
  {m[i].v.assignedNumber : i \in {j \in 1..Len(m) : m[j].v.status # "disconnected"}}

C5_LastPortIsLastSlot ==
  [][(/\ last'.op = "register"
      /\ Cardinality(PortRange \ usedPorts) = 1
      /\ last'.number # ""
      /\ last'.number \notin AssignedNumbers(vendors)
      /\ ~AlreadyRegistered(file, last'.number))
       => /\ last'.code # 429
          /\ usedPorts' = PortRange]_vars

\* C6: deleting a vendor that was already removed, or a connection.failure for
\* it, returns no error and leaves the registry and the port pool unchanged.
C6_SecondDeleteNoOp ==
  [][(last'.op \in {"delete", "connection.failure"} /\ last'.id \in removed)
       => /\ last'.code \in {0, 200}
          /\ vendors' = vendors
          /\ usedPorts' = usedPorts]_vars

\* C7: when the provider teardown throws inside cleanupVendor, run for a
\* deletion or a connection.failure, the vendor is still removed from the
\* registry and its port is still released.
C7_CleanupToleratesThrow ==
  [][(last'.op \in {"delete", "connection.failure"} /\ last'.threw)
       => /\ ~Has(vendors', last'.id)
          /\ Get(vendors, last'.id).port \notin usedPorts']_vars

\* C8: a vendor removed from the registry by deletion or connection-failure
\* cleanup is never put back, and no later event or timer of that vendor
\* reserves a port.
C8_NoResurrection ==
  [][\A id \in removed :
       /\ ~Has(vendors', id)
       /\ (last'.id = id /\ last'.op \in {"qr", "ready", "disconnect",
                                          "connection.failure", "refresh"})
            => usedPorts' \subseteq usedPorts]_vars

\* C9: a registration for the assignedNumber of a pending or connected vendor
\* of the registry is answered "Phone number already registered" (unless the
\* registry is full), and no two pending or connected vendors share an
\* assignedNumber (checked where every vendor was registered in this run).
ActiveNumbers(m) == {m[i].v.assignedNumber : i \in {j \in 1..Len(m) : Active(m[j].v)}}

C9_UniqueActiveNumber ==
  [][/\ (/\ last'.op = "register"
         /\ last'.number \in ActiveNumbers(vendors)
         /\ Len(vendors) < MAX_CONCURRENT_CONNECTIONS
         /\ ~Restoring)
          => last'.error = "Phone number already registered"
     /\ \A i, j \in 1..Len(vendors') :
          (/\ i # j
           /\ ~Restoring'
           /\ Active(vendors'[i].v)
           /\ Active(vendors'[j].v)
           /\ vendors'[i].v.assignedNumber # UNDEF)
            => vendors'[i].v.assignedNumber # vendors'[j].v.assignedNumber]_vars

\* C10: the snapshot on disk is the projection of the registry whenever no
\* handler is executing: a handler that starts from such a state (other than
\* the startup restore, and with no teardown throwing) ends in such a state.
InSync(f, m) == loadVendorsFromFile(f) = saveVendorsToFile(m).data

C10_SnapshotFollowsRegistry ==
  [][(/\ InSync(file, vendors)
      /\ last'.op \notin {"boot", "boot-resume"}
      /\ ~last'.threw
      /\ ~Restoring'
      /\ Quiescent')
       => InSync(file', vendors')]_vars

\* C11: saving the registry and loading the file back gives one record per
\* vendor of the registry, in the registry's order and no other record, and
\* every persisted field of a record reads as the vendor's field does (a
\* Date reads back as its ISO string, an undefined member as undefined).
JRead(rec, key) ==
  IF key \in DOMAIN rec THEN rec[key]
  ELSE IF key = "id" THEN NoId
  ELSE IF key = "port" THEN NoPort
  ELSE UNDEF

SameValue(key, stored, held) ==
  \/ stored = held
  \/ key = "lastConnection" /\ stored = ISONow /\ held = DateNow

C11_RoundTrip ==
  LET loaded == loadVendorsFromFile(saveVendorsToFile(vendors))
  IN  /\ Len(loaded) = Len(vendors)
      /\ \A i \in 1..Len(vendors) : \A key \in JsonKeys :
            SameValue(key, JRead(loaded[i], key), FieldOf(vendors[i].v, key))

\* two vendors, one paired in this run (a Date) and one never paired
W_C11_DateAndUndefined ==
  /\ Len(vendors) = 2
  /\ \E i \in 1..2 : vendors[i].v.lastConnection = DateNow
  /\ \E i \in 1..2 : vendors[i].v.lastConnection = UNDEF

\* C12: while vendors.json is missing or unparsable, loadVendorsFromFile
\* returns the empty list, and the operations that load it go on as if no
\* vendor were persisted: the startup restore ends with an empty registry and
\* no reserved port, a registration is not turned away as already registered,
\* and the list is the registry's own records.
C12_LoadNeverFails ==
  [][file.kind # "json" =>
       /\ loadVendorsFromFile(file) = <<>>
       /\ last'.op = "boot" =>
            (boot'.pc = "done" /\ vendors' = <<>> /\ usedPorts' = {})
       /\ last'.op = "register" => last'.error # "Phone number already registered"
       /\ listVendors(vendors, file) = saveVendorsToFile(vendors).data]_vars

\* the startup restore has run to its end on an unparsable file
W_C12_BootOnCorrupt ==
  last.op = "boot" /\ file.kind = "corrupt" /\ boot.pc = "done"

\* C13: the startup restore inserts exactly the persisted vendors whose status
\* is connected (those whose createBot settles): each is inserted under its
\* id with a port reserved for it that no other vendor of the registry holds
\* and with a provider of its own; a persisted vendor that is pending or
\* disconnected is never inserted.
StoredWith(recs, statuses) ==
  {JNum(recs[i], "id", NoId) : i \in {j \in 1..Len(recs) : JStr(recs[j], "status") \in statuses}}

C13_RestoreConnectedOnly ==
  [][/\ (last'.op = "boot-resume" /\ last'.id \in boot'.restored) =>
          /\ Has(vendors', last'.id)
          /\ LET v == Get(vendors', last'.id)
             IN  /\ v.port = boot.port
                 /\ v.port \in usedPorts'
                 /\ \A j \in 1..Len(vendors') :
                      vendors'[j].k # last'.id => vendors'[j].v.port # v.port
                 /\ v.provider = boot.prov
                 /\ providers'[boot.prov].vid = last'.id
                 /\ \A j \in 1..Len(vendors') :
                      vendors'[j].k # last'.id => vendors'[j].v.provider # v.provider
     /\ boot'.pc = "done" =>
          boot'.restored \cup boot'.failed = StoredWith(boot'.storedVendors, {"connected"})
     /\ Keys(vendors') \cap StoredWith(boot'.storedVendors, {"pending", "disconnected"}) = {}]_vars

\* C14: send for a vendor that is absent or not connected answers 404, calls
\* no provider and writes no conversation entry; for a connected vendor it
\* calls sendText on the vendor's provider and, when that succeeds, appends
\* exactly one bot entry to the conversation of (vendor, target), and when it
\* fails appends nothing.
BotEntries(conv, vendorId) ==
  SelectSeq(conv, LAMBDA e : e.vendorId = vendorId /\ e.sender = "bot")

C14_SendNeedsConnected ==
  [][last'.op = "send" =>
       IF ~Has(vendors, last'.id) \/ Get(vendors, last'.id).status # "connected"
         THEN /\ last'.code = 404
              /\ last'.called = <<>>
              /\ conversations' = conversations
         ELSE /\ last'.called = <<Get(vendors, last'.id).provider>>
              /\ last'.code \in {200, 500}
              /\ last'.code = 500 => conversations' = conversations
              /\ last'.code = 200 =>
                   /\ Len(conversations') = Len(conversations) + 1
                   /\ SubSeq(conversations', 1, Len(conversations)) = conversations
                   /\ LET e == conversations'[Len(conversations')]
                      IN  /\ e.vendorId = last'.id
                          /\ e.userId \in Users
                          /\ e.sender = "bot"]_vars

\* a message went out for a connected vendor while another vendor of the
\* registry is not connected
W_C14_Sent ==
  /\ last.op = "send"
  /\ last.code = 200
  /\ BotEntries(conversations, last.id) # <<>>
  /\ \E i \in 1..Len(vendors) : vendors[i].v.status # "connected"

\* C15: a broadcast attempts a send on every connected vendor and on no other:
\* its result list has exactly one outcome per connected vendor, in registry
\* order, also after a failure; each success appends one bot entry for that
\* vendor; and whatever fails, the registry, the port pool, the snapshot and
\* the metrics are left as they were.
ConnectedIds(m) ==
  LET conn == SelectSeq(m, LAMBDA e : e.v.status = "connected")
  IN  [i \in 1..Len(conn) |-> conn[i].k]

Succeeded(results) ==
  LET ok == SelectSeq(results, LAMBDA r : r.success)
  IN  [i \in 1..Len(ok) |-> ok[i].vendorId]

C15_BroadcastIndependent ==
  [][last'.op = "broadcast" =>
       /\ [i \in 1..Len(last'.results) |-> last'.results[i].vendorId] = ConnectedIds(vendors)
       /\ Len(last'.called) = Len(ConnectedIds(vendors))
       /\ \A i \in 1..Len(last'.called) :
            last'.called[i] = Get(vendors, ConnectedIds(vendors)[i]).provider
       /\ Len(conversations') = Len(conversations) + Len(Succeeded(last'.results))
       /\ SubSeq(conversations', 1, Len(conversations)) = conversations
       /\ \A i \in 1..Len(Succeeded(last'.results)) :
            LET e == conversations'[Len(conversations) + i]
            IN  e.vendorId = Succeeded(last'.results)[i] /\ e.sender = "bot"
       /\ vendors' = vendors
       /\ usedPorts' = usedPorts
       /\ file' = file
       /\ metrics' = metrics]_vars

\* the send of the first connected vendor failed and a later one succeeded
W_C15_FailureThenSuccess ==
  /\ last.op = "broadcast"
  /\ Len(last.results) >= 2
  /\ ~last.results[1].success
  /\ last.results[Len(last.results)].success

\* C16: the list is the union by id of the registry and the snapshot: every
\* id of either appears in exactly one record of the list, the list has no
\* other record, and the record of an id the registry holds is the registry's.
FileIds(f) ==
  {JNum(loadVendorsFromFile(f)[i], "id", NoId) : i \in 1..Len(loadVendorsFromFile(f))}

C16_ListIsUnion ==
  LET out == listVendors(vendors, file)
      idAt(i) == JNum(out[i], "id", NoId)
  IN  /\ {idAt(i) : i \in 1..Len(out)} = Keys(vendors) \cup FileIds(file)
      /\ \A i, j \in 1..Len(out) : idAt(i) = idAt(j) => i = j
      /\ \A i \in 1..Len(out) :
           Has(vendors, idAt(i)) => out[i] = Stringify(Get(vendors, idAt(i)))

\* an id in both with different records, one only in the registry and one only
\* in the snapshot
W_C16_Overlap ==
  /\ \E id \in Keys(vendors) \cap FileIds(file) :
       \E i \in 1..Len(file.data) :
         /\ JNum(file.data[i], "id", NoId) = id
         /\ file.data[i] # Stringify(Get(vendors, id))
  /\ Keys(vendors) \ FileIds(file) # {}
  /\ FileIds(file) \ Keys(vendors) # {}

\* C17: the assignedNumber of a vendor of the registry never changes: no step
\* changes it for an id the registry holds before and after; an update whose
\* phone number differs from it is answered 400 and leaves the registry as it
\* was; an update that succeeds changes nothing of the record but the name.
C17_AssignedNumberFixed ==
  [][/\ \A i \in 1..Len(vendors) :
          Has(vendors', vendors[i].k) =>
            Get(vendors', vendors[i].k).assignedNumber = vendors[i].v.assignedNumber
     /\ (/\ last'.op = "update"
         /\ Has(vendors, last'.id)
         /\ last'.number # ""
         /\ last'.number # Get(vendors, last'.id).assignedNumber)
          => (last'.code = 400 /\ vendors' = vendors)
     /\ (last'.op = "update" /\ last'.code = 200) =>
          /\ Keys(vendors') = Keys(vendors)
          /\ \A i \in 1..Len(vendors) :
               vendors'[i] = vendors[i]
                 \/ /\ vendors[i].k = last'.id
                    /\ [vendors'[i].v EXCEPT !.name = vendors[i].v.name] = vendors[i].v]_vars

\* C18: whenever no handler is executing, the metrics health() reports are
\* those of the registry: totalConnections is the number of vendors (and not
\* negative), activeConnections the number of connected vendors and
\* pendingConnections the number of pending ones.
C18_MetricsDerived ==
  Quiescent =>
    /\ metrics.totalConnections = Size(vendors)
    /\ metrics.totalConnections >= 0
    /\ metrics.activeConnections = CountStatus(vendors, "connected")
    /\ metrics.pendingConnections = CountStatus(vendors, "pending")

\* C19: a ready event for a vendor of the registry leaves the vendor connected,
\* with phoneNumber the confirmed identity, no qr, lastConnection set and
\* reconnectAttempts 0, whether or not the identity is the assignedNumber;
\* id, name, assignedNumber and port are as before.
C19_ReadyConnects ==
  [][(last'.op = "ready" /\ Has(vendors, last'.id)) =>
       /\ Has(vendors', last'.id)
       /\ LET old == Get(vendors, last'.id)
              new == Get(vendors', last'.id)
          IN  /\ new.status = "connected"
              /\ new.phoneNumber = last'.number
              /\ new.qr = UNDEF
              /\ new.lastConnection = DateNow
              /\ new.reconnectAttempts = 0
              /\ new.id = old.id
              /\ new.name = old.name
              /\ new.assignedNumber = old.assignedNumber
              /\ new.port = old.port]_vars

\* a vendor paired with an identity other than its assigned number
W_C19_Mismatch ==
  /\ last.op = "ready"
  /\ Has(vendors, last.id)
  /\ Get(vendors, last.id).assignedNumber \in Numbers
  /\ last.number # Get(vendors, last.id).assignedNumber
  /\ Get(vendors, last.id).status = "connected"

\* C20: a vendor has a qr only while it is pending: no connected and no
\* disconnected vendor of the registry has one.
C20_QrOnlyWhilePending ==
  \A i \in 1..Len(vendors) :
    vendors[i].v.status \in {"connected", "disconnected"} => vendors[i].v.qr = UNDEF

\* C21: once ready or disconnect has been delivered for a vendor, no
\* code-refresh timer of that vendor is running, whichever provider of the
\* vendor started it; and a refresh timer that fires never takes a connected
\* vendor out of the connected status.
TimersOf(provs, id) == {p \in 1..Len(provs) : provs[p].vid = id /\ provs[p].timer.on}

C21_NoTimerOnceSettled ==
  [][/\ last'.op \in {"ready", "disconnect"} => TimersOf(providers', last'.id) = {}
     /\ (/\ last'.op = "refresh"
         /\ Has(vendors, last'.id)
         /\ Get(vendors, last'.id).status = "connected")
          => (Has(vendors', last'.id) /\ Get(vendors', last'.id).status = "connected")]_vars

\* C22: a disconnect event for a vendor of the registry leaves the vendor in
\* the registry with status disconnected; its id, name, assignedNumber,
\* phoneNumber, reconnectAttempts and port are as before, no other vendor
\* changes and the port pool is as it was.
C22_DisconnectRetains ==
  [][(last'.op = "disconnect" /\ Has(vendors, last'.id)) =>
       /\ Keys(vendors') = Keys(vendors)
       /\ Len(vendors') = Len(vendors)
       /\ usedPorts' = usedPorts
       /\ \A i \in 1..Len(vendors) :
            IF vendors[i].k = last'.id
              THEN /\ vendors'[i].k = last'.id
                   /\ vendors'[i].v.status = "disconnected"
                   /\ vendors'[i].v.id = vendors[i].v.id
                   /\ vendors'[i].v.name = vendors[i].v.name
                   /\ vendors'[i].v.assignedNumber = vendors[i].v.assignedNumber
                   /\ vendors'[i].v.phoneNumber = vendors[i].v.phoneNumber
                   /\ vendors'[i].v.reconnectAttempts = vendors[i].v.reconnectAttempts
                   /\ vendors'[i].v.port = vendors[i].v.port
              ELSE vendors'[i] = vendors[i]]_vars

\* a paired vendor that holds a reserved port has been disconnected
W_C22_PairedDisconnected ==
  /\ last.op = "disconnect"
  /\ Has(vendors, last.id)
  /\ Get(vendors, last.id).status = "disconnected"
  /\ Get(vendors, last.id).phoneNumber \in PairedNumbers
  /\ Get(vendors, last.id).port \in usedPorts

\* C23: a connection.failure event for a vendor of the registry ends with the
\* vendor out of the registry, its port out of the port pool and no record of
\* it in the persisted snapshot; every other vendor of the registry is as it
\* was and no other port is released or reserved.
C23_FailureRemoves ==
  [][(last'.op = "connection.failure" /\ Has(vendors, last'.id)) =>
       /\ ~Has(vendors', last'.id)
       /\ Get(vendors, last'.id).port \notin usedPorts'
       /\ last'.id \notin FileIds(file')
       /\ vendors' = MapDelete(vendors, last'.id)
       /\ usedPorts' = usedPorts \ {Get(vendors, last'.id).port}]_vars

\* C24: one run of the retry sweep adds 1 to reconnectAttempts and sets status
\* pending for every vendor that is disconnected with reconnectAttempts below
\* the retry ceiling, leaves every other vendor as it was, keeps the registry's
\* keys and order and leaves the port pool alone.
C24_SweepFrame ==
  [][last'.op = "sweep" =>
       /\ Len(vendors') = Len(vendors)
       /\ usedPorts' = usedPorts
       /\ \A i \in 1..Len(vendors) :
            /\ vendors'[i].k = vendors[i].k
            /\ vendors'[i].v =
                 IF /\ vendors[i].v.status = "disconnected"
                    /\ vendors[i].v.reconnectAttempts \in 0..(RETRY_LIMIT - 1)
                   THEN [vendors[i].v EXCEPT !.reconnectAttempts = @ + 1,
                                             !.status = "pending"]
                   ELSE vendors[i].v]_vars

\* the sweep has run over a vendor that is disconnected at the retry ceiling
W_C24_SweptAtCeiling ==
  /\ last.op = "sweep"
  /\ \E i \in 1..Len(vendors) :
       /\ vendors[i].v.status = "disconnected"
       /\ vendors[i].v.reconnectAttempts = RETRY_LIMIT

\* C25: every vendor of the registry has a reconnectAttempts between 0 and the
\* retry ceiling, in every reachable state.
C25_AttemptsBounded ==
  \A i \in 1..Len(vendors) : vendors[i].v.reconnectAttempts \in 0..RETRY_LIMIT

\* C26: a vendor that is disconnected with reconnectAttempts at the retry
\* ceiling stays disconnected for as long as the registry holds it: no sweep,
\* provider event or timer moves it to pending or connected.
AtCeiling(v) == v.status = "disconnected" /\ v.reconnectAttempts >= RETRY_LIMIT

C26_CeilingIsFinal ==
  [][\A i \in 1..Len(vendors) :
       (AtCeiling(vendors[i].v) /\ Has(vendors', vendors[i].k))
         => Get(vendors', vendors[i].k).status = "disconnected"]_vars

\* C27: a sweep that moves a vendor from disconnected to pending provisions a
\* provider for it as a registration does: a new provider instance is created
\* for the vendor and the vendor's record refers to it.
Retried(m, n) ==
  {m[i].k : i \in {j \in 1..Len(m) :
                     /\ m[j].v.status = "disconnected"
                     /\ Has(n, m[j].k)
                     /\ Get(n, m[j].k).status = "pending"}}

C27_SweepProvisions ==
  [][last'.op = "sweep" =>
       \A id \in Retried(vendors, vendors') :
         /\ \E p \in (Len(providers) + 1)..Len(providers') : providers'[p].vid = id
         /\ Get(vendors', id).provider > Len(providers)]_vars

\* C28: when a disconnect event has found a vendor connected and the sweep has
\* then run three times with no ready event for the vendor, the vendor is
\* disconnected after the third sweep; and a further sweep leaves its
\* reconnectAttempts as it is.
C28_ThreeSweeps ==
  [][last'.op = "sweep" =>
       /\ \A e \in outage' :
            (e[2] = 3 /\ Has(vendors', e[1]))
              => Get(vendors', e[1]).status = "disconnected"
       /\ \A e \in outage :
            (e[2] >= 3 /\ Has(vendors, e[1]))
              => Get(vendors', e[1]).reconnectAttempts = Get(vendors, e[1]).reconnectAttempts]_vars

\* C29: the registry never holds more than MAX_CONCURRENT_CONNECTIONS vendors.
C29_RegistryWithinCap == Size(vendors) <= MAX_CONCURRENT_CONNECTIONS

\* C30: a vendor the snapshot holds as pending or disconnected and the registry
\* does not hold (persisted by an earlier run, never restored) is still in the
\* snapshot, and so in the list, after any step that is not about that vendor.
ListIds(m, f) == {JNum(listVendors(m, f)[i], "id", NoId) : i \in 1..Len(listVendors(m, f))}

C30_SnapshotOnlyKept ==
  [][\A id \in StoredWith(loadVendorsFromFile(file), {"pending", "disconnected"}) \ Keys(vendors) :
       last'.id # id => (id \in FileIds(file') /\ id \in ListIds(vendors', file'))]_vars

====
